---- MODULE Spec2Model ----
(***************************************************************************)
(* Model of the configuration loader (LoadConfig, Config.Operators,        *)
(* Config.TLSListeners) and of the hostname helpers (IsHostname,           *)
(* LookupHostname, AddrLookupHostname, IPString) of package irc.           *)
(*                                                                         *)
(* Go strings that the code inspects character by character are sequences  *)
(* of Unicode code points; len() of such a string is its UTF-8 byte        *)
(* length.  Strings the code only compares or tests for emptiness are      *)
(* TLA+ strings.                                                           *)
(***************************************************************************)
EXTENDS Integers, Sequences, FiniteSets, TLC

VARIABLES
    name, hostPc, hostResult,
    addrStr, dnsErr, dnsNames, lookupPc, lookupOp, lookupArg, lookupResult,
    doc, config, loadPc, loadErr,
    opsCalls, opsResult, opsPrev, tlsCalls, tlsResult, tlsPrev

hostVars   == <<name, hostPc, hostResult>>
lookupVars == <<addrStr, dnsErr, dnsNames, lookupPc, lookupOp, lookupArg, lookupResult>>
configVars == <<doc, config, loadPc, loadErr,
                opsCalls, opsResult, opsPrev, tlsCalls, tlsResult, tlsPrev>>
vars       == <<hostVars, lookupVars, configVars>>

----------------------------------------------------------------------------
(* Bounds of the model *)

\* short hostnames are enumerated exhaustively up to this many characters
MaxShortLen == 3
\* transport address strings are enumerated up to this many characters
MaxAddrLen == 5
\* the resolver answers with at most this many candidate names
MaxNames == 2
\* the Operator and tls-listeners mappings of a document hold at most this
\* many entries in total
MaxEntries == 2
\* Operators() and TLSListeners() are each called at most this many times
MaxCalls == 2

(* Program constants *)
MaxHostnameLen == 253
MaxLabelLen == 63

----------------------------------------------------------------------------
(* Strings *)

\* "abcdefghijklmnopqrstuvwxyz1234567890-."
allowedHostnameChars ==
    << 97, 98, 99, 100, 101, 102, 103, 104, 105, 106, 107, 108, 109,
       110, 111, 112, 113, 114, 115, 116, 117, 118, 119, 120, 121, 122,
       49, 50, 51, 52, 53, 54, 55, 56, 57, 48, 45, 46 >>

\* the one-character strings "." and "-"
DotStr  == << 46 >>
DashStr == << 45 >>

\* number of bytes of the UTF-8 encoding of code point c
UTF8Len(c) == IF c < 128 THEN 1 ELSE IF c < 2048 THEN 2 ELSE IF c < 65536 THEN 3 ELSE 4

\* len(s): Go's len of a string is its length in bytes, the sum of UTF8Len
\* over its characters (summed as the number of characters of at least 1, 2,
\* 3 and 4 bytes)
BytesAtLeast(s, k) == Cardinality({ i \in DOMAIN s : UTF8Len(s[i]) >= k })

GoLen(s) == BytesAtLeast(s, 1) + BytesAtLeast(s, 2) + BytesAtLeast(s, 3) + BytesAtLeast(s, 4)

\* strings.Index(s, sub) + 1; 0 when sub does not occur in s
Index(s, sub) ==
    LET hits == { i \in 1..(Len(s) - Len(sub) + 1) : SubSeq(s, i, i + Len(sub) - 1) = sub }
    IN  IF hits = {} THEN 0 ELSE CHOOSE i \in hits : \A j \in hits : i <= j

Contains(s, sub) == Index(s, sub) # 0

HasPrefix(s, p) == Len(s) >= Len(p) /\ SubSeq(s, 1, Len(p)) = p

HasSuffix(s, p) == Len(s) >= Len(p) /\ SubSeq(s, Len(s) - Len(p) + 1, Len(s)) = p

\* strings.Split: with an empty separator the string is exploded into its
\* characters, otherwise it is cut at every occurrence of the separator
RECURSIVE Split(_, _)
Split(s, sep) ==
    IF sep = << >>
    THEN [i \in 1..Len(s) |-> << s[i] >>]
    ELSE LET i == Index(s, sep)
         IN  IF i = 0
             THEN << s >>
             ELSE << SubSeq(s, 1, i - 1) >> \o Split(SubSeq(s, i + Len(sep), Len(s)), sep)

\* unicode.ToLower on the code points the model uses: ASCII and Latin-1
\* capitals move by 32, U+212A KELVIN SIGN maps to "k", U+0130 to "i"
ToLowerRune(c) ==
    IF c \in 65..90 THEN c + 32
    ELSE IF c \in (192..222) \ {215} THEN c + 32
    ELSE IF c = 8490 THEN 107
    ELSE IF c = 304 THEN 105
    ELSE c

ToLower(s) == [i \in 1..Len(s) |-> ToLowerRune(s[i])]

----------------------------------------------------------------------------
(* IsHostname *)

\* BadPart without the upper limit on the length of a label
BadPartNoMax(part) ==
    \/ GoLen(part) < 1
    \/ HasPrefix(part, DashStr)
    \/ HasSuffix(part, DashStr)

BadPart(part) ==
    \/ GoLen(part) < 1
    \/ GoLen(part) > MaxLabelLen
    \/ HasPrefix(part, DashStr)
    \/ HasSuffix(part, DashStr)

IsHostname(n) ==
    IF ~Contains(n, DotStr) \/ GoLen(n) < 1 \/ GoLen(n) > MaxHostnameLen
    THEN FALSE
    ELSE LET parts == Split(n, DotStr)
             chars == Split(ToLower(n), << >>)
         IN  IF \E i \in DOMAIN parts : BadPart(parts[i])
             THEN FALSE
             ELSE IF \E i \in DOMAIN chars : ~Contains(allowedHostnameChars, chars[i])
                  THEN FALSE
                  ELSE TRUE

----------------------------------------------------------------------------
(* Inputs of IsHostname *)

\* a, A, 1, -, ., _, e-acute, KELVIN SIGN
NameChars == { 97, 65, 49, 45, 46, 95, 233, 8490 }

ShortNames == UNION { [1..n -> NameChars] : n \in 0..MaxShortLen }

Rep(c, n) == [i \in 1..n |-> c]

\* label lengths around the limit of a label
LabelLens == { MaxLabelLen - 2, MaxLabelLen - 1, MaxLabelLen, MaxLabelLen + 1 }

\* four labels of "a" joined by ".": total lengths 247..259
LongNames ==
    { Rep(97, l[1]) \o DotStr \o Rep(97, l[2]) \o DotStr \o Rep(97, l[3]) \o DotStr \o Rep(97, l[4]) :
        l \in [1..4 -> LabelLens] }
    \cup { Rep(97, MaxHostnameLen + 1), Rep(97, MaxHostnameLen) }

Names == ShortNames \cup LongNames

CallIsHostname ==
    /\ hostPc = "start"
    /\ hostResult' = IsHostname(name)
    /\ hostPc' = "done"
    /\ UNCHANGED name

----------------------------------------------------------------------------
(* IPString, LookupHostname, AddrLookupHostname *)

ColonStr == << 58 >>
LBrackStr == << 91 >>
RBrackStr == << 93 >>

\* index of the last ":" of s, 0 when there is none
LastColon(s) ==
    LET hits == { i \in 1..Len(s) : s[i] = 58 }
    IN  IF hits = {} THEN 0 ELSE CHOOSE i \in hits : \A j \in hits : j <= i

\* net.SplitHostPort: [err, host]; the port is not used by the caller
SplitHostPort(hostport) ==
    LET i    == LastColon(hostport)
        end  == Index(hostport, RBrackStr)
        Fail == [err |-> TRUE, host |-> << >>]
        rest(k) == SubSeq(hostport, k, Len(hostport))
    IN  IF i = 0 THEN Fail
        ELSE IF hostport[1] = 91
        THEN IF end = 0 THEN Fail
             ELSE IF end = Len(hostport) THEN Fail
             ELSE IF end + 1 # i THEN Fail
             ELSE IF Contains(rest(2), LBrackStr) THEN Fail
             ELSE IF Contains(rest(end + 1), RBrackStr) THEN Fail
             ELSE [err |-> FALSE, host |-> SubSeq(hostport, 2, end - 1)]
        ELSE IF Contains(SubSeq(hostport, 1, i - 1), ColonStr) THEN Fail
             ELSE IF Contains(hostport, LBrackStr) THEN Fail
             ELSE IF Contains(hostport, RBrackStr) THEN Fail
             ELSE [err |-> FALSE, host |-> SubSeq(hostport, 1, i - 1)]

\* IPString returning the (empty) host of the failed split
IPStringHostOnly(a) == SplitHostPort(a).host

IPString(a) ==
    LET r == SplitHostPort(a)
    IN  IF r.err THEN a ELSE r.host

\* whether net.LookupAddr takes s for an IP address, on strings shorter than a
\* full IPv6 address of eight groups: only "1" and ":", exactly one "::", no
\* single ":" at either end, groups of at most four digits.  Any other
\* argument is refused with an error before a query is made.
IsIPLiteral(s) ==
    /\ \A i \in 1..Len(s) : s[i] \in { 49, 58 }
    /\ Cardinality({ i \in 1..(Len(s) - 1) : s[i] = 58 /\ s[i + 1] = 58 }) = 1
    /\ s[1] = 58 => s[2] = 58
    /\ s[Len(s)] = 58 => s[Len(s) - 1] = 58
    /\ \A i \in 1..(Len(s) - 4) : \E j \in i..(i + 4) : s[j] = 58
    /\ Cardinality({ i \in 1..Len(s) : s[i] = 49 /\ (i = 1 \/ s[i - 1] = 58) }) <= 7

\* the answers (names, err) net.LookupAddr may give for addr
LookupAddrAnswers(addr, candidates) ==
    IF IsIPLiteral(addr)
    THEN candidates \X BOOLEAN
    ELSE { << << >>, TRUE >> }

\* LookupHostname given the answer (names, err) of net.LookupAddr(addr);
\* names[0] of an empty answer is an index out of range
LookupHostname(addr, names, err) ==
    IF err
    THEN [outcome |-> "returned", value |-> addr]
    ELSE IF names = << >>
         THEN [outcome |-> "panicked", value |-> << >>]
         ELSE IF ~IsHostname(names[1])
              THEN [outcome |-> "returned", value |-> addr]
              ELSE [outcome |-> "returned", value |-> names[1]]

\* 1, :, [, ]
AddrChars == { 49, 58, 91, 93 }

Addrs == UNION { [1..n -> AddrChars] : n \in 0..MaxAddrLen }

\* candidate names a resolver may return: "a.b" and "a"
DnsCandidates == { << 97, 46, 98 >>, << 97 >> }

DnsAnswers == UNION { [1..n -> DnsCandidates] : n \in 0..MaxNames }

\* the body shared by the two entry points: the resolver's answer is the
\* environment's choice
DoLookup(op, arg) ==
    \E answer \in LookupAddrAnswers(arg, DnsAnswers) :
        LET r == LookupHostname(arg, answer[1], answer[2])
        IN  /\ lookupPc = "start"
            /\ lookupOp' = op
            /\ lookupArg' = arg
            /\ dnsNames' = answer[1]
            /\ dnsErr' = answer[2]
            /\ lookupPc' = r.outcome
            /\ lookupResult' = r.value
            /\ UNCHANGED addrStr

CallLookupHostname == DoLookup("LookupHostname", addrStr)

CallAddrLookupHostname == DoLookup("AddrLookupHostname", IPString(addrStr))

----------------------------------------------------------------------------
(* Collaborators of the resolvers *)

\* CasefoldName on the raw names of the model: "Admin" and "admin" fold to
\* the same canonical name, "b d" cannot be folded
CasefoldName(n) ==
    CASE n = "Admin" -> [err |-> FALSE, name |-> "admin"]
      [] n = "admin" -> [err |-> FALSE, name |-> "admin"]
      [] OTHER       -> [err |-> TRUE, name |-> ""]

\* DecodePassword on the encoded texts of the model; any other text is
\* malformed
DecodePassword(p) ==
    CASE p = "eA==" -> [err |-> FALSE, bytes |-> << 120 >>]
      [] p = "eQ==" -> [err |-> FALSE, bytes |-> << 121 >>]
      [] OTHER      -> [err |-> TRUE, bytes |-> << >>]

\* tls.LoadX509KeyPair on the files of the model: two matching pairs exist
LoadX509KeyPair(cert, key) ==
    CASE cert = "a.crt" /\ key = "a.key" -> [err |-> FALSE, cert |-> "A"]
      [] cert = "b.crt" /\ key = "b.key" -> [err |-> FALSE, cert |-> "B"]
      [] OTHER                           -> [err |-> TRUE, cert |-> ""]

----------------------------------------------------------------------------
(* Config *)

\* a Go map as a set of [key, val] records with pairwise different keys
MapPut(m, k, v) == { e \in m : e.key # k } \cup { [key |-> k, val |-> v] }

MapKeys(m) == { e.key : e \in m }

\* every order in which range may visit the entries of map m
Orders(m) ==
    { o \in [1..Cardinality(m) -> m] : \A i, j \in DOMAIN o : i # j => o[i] # o[j] }

\* (conf *TLSListenConfig) Config(): a nil receiver is dereferenced
TLSConfig(conf) ==
    IF conf.nil
    THEN [outcome |-> "panicked", err |-> FALSE, config |-> ""]
    ELSE LET r == LoadX509KeyPair(conf.Cert, conf.Key)
         IN  IF r.err
             THEN [outcome |-> "returned", err |-> TRUE, config |-> ""]
             ELSE [outcome |-> "returned", err |-> FALSE, config |-> r.cert]

\* (conf *PassConfig) PasswordBytes(): a nil receiver is dereferenced, a
\* decode error is log.Fatal
PasswordBytes(conf) ==
    IF conf.nil
    THEN [outcome |-> "panicked", bytes |-> << >>]
    ELSE LET r == DecodePassword(conf.Password)
         IN  IF r.err
             THEN [outcome |-> "exited", bytes |-> << >>]
             ELSE [outcome |-> "returned", bytes |-> r.bytes]

\* the loop of Operators() over the entries in the order `order`, from entry i
\* with the map built so far
RECURSIVE OperatorsLoop(_, _, _)
OperatorsLoop(order, i, operators) ==
    IF i > Len(order)
    THEN [outcome |-> "returned", map |-> operators]
    ELSE LET cf == CasefoldName(order[i].key)
         IN  IF ~cf.err
             THEN LET pb == PasswordBytes(order[i].val)
                  IN  IF pb.outcome # "returned"
                      THEN [outcome |-> pb.outcome, map |-> {}]
                      ELSE OperatorsLoop(order, i + 1, MapPut(operators, cf.name, pb.bytes))
             ELSE OperatorsLoop(order, i + 1, operators)

\* Operators() storing the folded names back into the receiver
OperatorsFolding(conf, order) ==
    LET r == OperatorsLoop(order, 1, {})
    IN  [outcome |-> r.outcome, map |-> r.map,
         conf |-> [conf EXCEPT !.Operator =
                     { [key |-> CasefoldName(e.key).name, val |-> e.val] : e \in conf.Operator }]]

\* Operators() on conf when range visits conf.Operator in the order `order`:
\* the outcome, the map returned and the receiver after the call
Operators(conf, order) ==
    LET r == OperatorsLoop(order, 1, {})
    IN  [outcome |-> r.outcome, map |-> r.map, conf |-> conf]

RECURSIVE TLSListenersLoop(_, _, _)
TLSListenersLoop(order, i, tlsListeners) ==
    IF i > Len(order)
    THEN [outcome |-> "returned", map |-> tlsListeners]
    ELSE LET c == TLSConfig(order[i].val)
         IN  IF c.outcome # "returned"
             THEN [outcome |-> c.outcome, map |-> {}]
             ELSE IF c.err
             THEN [outcome |-> "exited", map |-> {}]
             ELSE LET cf == CasefoldName(order[i].key)
                  IN  IF ~cf.err
                      THEN TLSListenersLoop(order, i + 1, MapPut(tlsListeners, cf.name, c.config))
                      ELSE TLSListenersLoop(order, i + 1, tlsListeners)

TLSListeners(conf, order) ==
    LET r == TLSListenersLoop(order, 1, {})
    IN  [outcome |-> r.outcome, map |-> r.map, conf |-> conf]

\* Validate with the datastore check ahead of the two server name checks
ValidateDatastoreFirst(c) ==
    IF c.Network.Name = "" THEN "Network name missing"
    ELSE IF c.Datastore.Path = "" THEN "Datastore path missing"
    ELSE IF c.Server.Name = << >> THEN "Server name missing"
    ELSE IF ~IsHostname(c.Server.Name) THEN "Server name must match the format of a hostname"
    ELSE IF Len(c.Server.Listen) = 0 THEN "Server listening addresses missing"
    ELSE IF \/ c.Limits.NickLen < 1
            \/ c.Limits.ChannelLen < 2
            \/ c.Limits.AwayLen < 1
            \/ c.Limits.TopicLen < 1
         THEN "Limits aren't setup properly, check them and make them sane"
    ELSE ""

\* Validate with KickLen checked like its sibling limits
ValidateKickLen(c) ==
    IF c.Network.Name = "" THEN "Network name missing"
    ELSE IF c.Server.Name = << >> THEN "Server name missing"
    ELSE IF ~IsHostname(c.Server.Name) THEN "Server name must match the format of a hostname"
    ELSE IF c.Datastore.Path = "" THEN "Datastore path missing"
    ELSE IF Len(c.Server.Listen) = 0 THEN "Server listening addresses missing"
    ELSE IF \/ c.Limits.NickLen < 1
            \/ c.Limits.ChannelLen < 2
            \/ c.Limits.AwayLen < 1
            \/ c.Limits.KickLen < 1
            \/ c.Limits.TopicLen < 1
         THEN "Limits aren't setup properly, check them and make them sane"
    ELSE ""

\* the checks of LoadConfig on the deserialized config, in the order of the
\* code: the error of the first one that fails, "" when none does
Validate(c) ==
    IF c.Network.Name = "" THEN "Network name missing"
    ELSE IF c.Server.Name = << >> THEN "Server name missing"
    ELSE IF ~IsHostname(c.Server.Name) THEN "Server name must match the format of a hostname"
    ELSE IF c.Datastore.Path = "" THEN "Datastore path missing"
    ELSE IF Len(c.Server.Listen) = 0 THEN "Server listening addresses missing"
    ELSE IF \/ c.Limits.NickLen < 1
            \/ c.Limits.ChannelLen < 2
            \/ c.Limits.AwayLen < 1
            \/ c.Limits.TopicLen < 1
            \/ c.Limits.TopicLen < 1
         THEN "Limits aren't setup properly, check them and make them sane"
    ELSE ""

\* the step of LoadConfig that copies the flat server password into the
\* embedded PassConfig
Normalize(c) ==
    IF c.Server.Password # ""
    THEN [c EXCEPT !.Server.PassConfig.Password = c.Server.Password]
    ELSE c

\* the value of every field of a Config that yaml left unset
ZeroConfig ==
    [ Network   |-> [Name |-> ""],
      Server    |-> [PassConfig |-> [Password |-> ""], Password |-> "", Name |-> << >>,
                     Listen |-> << >>, TLSListeners |-> {}],
      Datastore |-> [Path |-> ""],
      Operator  |-> {},
      Limits    |-> [NickLen |-> 0, ChannelLen |-> 0, AwayLen |-> 0, KickLen |-> 0,
                     TopicLen |-> 0] ]

\* LoadConfig on document d: the outcome, whether the returned *Config is nil,
\* the Config it points to, and the error message ("" for a nil error).
\* An empty document leaves config nil, and config.Server is dereferenced.
LoadConfig(d) ==
    IF d.kind = "unreadable"
    THEN [outcome |-> "returned", nil |-> TRUE, config |-> ZeroConfig, err |-> "read error"]
    ELSE IF d.kind = "malformed"
    THEN [outcome |-> "returned", nil |-> TRUE, config |-> ZeroConfig, err |-> "yaml error"]
    ELSE IF d.kind = "empty"
    THEN [outcome |-> "panicked", nil |-> TRUE, config |-> ZeroConfig, err |-> ""]
    ELSE LET c == Normalize(d.cfg)
             e == Validate(c)
         IN  IF e # ""
             THEN [outcome |-> "returned", nil |-> TRUE, config |-> ZeroConfig, err |-> e]
             ELSE [outcome |-> "returned", nil |-> FALSE, config |-> c, err |-> ""]

----------------------------------------------------------------------------
(* Configuration documents *)

RawNames == { "Admin", "admin", "b d" }

OpConfs ==
    { [nil |-> TRUE, Password |-> ""] }
    \cup { [nil |-> FALSE, Password |-> p] : p \in { "eA==", "eQ==", "!" } }

TLSConfs ==
    { [nil |-> TRUE, Cert |-> "", Key |-> ""],
      [nil |-> FALSE, Cert |-> "a.crt", Key |-> "a.key"],
      [nil |-> FALSE, Cert |-> "b.crt", Key |-> "b.key"],
      [nil |-> FALSE, Cert |-> "missing.crt", Key |-> "missing.key"] }

\* the mappings from raw names to values of V
MapsTo(V) ==
    UNION { { { [key |-> n, val |-> f[n]] : n \in D } : f \in [D -> V] } : D \in SUBSET RawNames }

\* a document that passes every check and has no operators and no TLS listeners
BaseConfig ==
    [ Network   |-> [Name |-> "ErgoTest"],
      Server    |-> [PassConfig |-> [Password |-> ""], Password |-> "", Name |-> << 97, 46, 98 >>,
                     Listen |-> << ":6667" >>, TLSListeners |-> {}],
      Datastore |-> [Path |-> "ircd.db"],
      Operator  |-> {},
      Limits    |-> [NickLen |-> 1, ChannelLen |-> 2, AwayLen |-> 1, KickLen |-> 1,
                     TopicLen |-> 1] ]

FlatPasswords   == { "", "eA==" }
NestedPasswords == { "", "eQ==" }
KickLens        == { -1, 0, 1 }

\* documents that vary the checked fields: "", "a", "a.b", "-a.b" as server name
ScalarConfigs ==
    { [ Network   |-> [Name |-> nn],
        Server    |-> [PassConfig |-> [Password |-> np], Password |-> fp, Name |-> sn,
                       Listen |-> ls, TLSListeners |-> {}],
        Datastore |-> [Path |-> dp],
        Operator  |-> {},
        Limits    |-> [NickLen |-> lim[1], ChannelLen |-> lim[2], AwayLen |-> lim[3],
                       KickLen |-> kl, TopicLen |-> lim[4]] ] :
        nn \in { "", "ErgoTest" },
        sn \in { << >>, << 97 >>, << 97, 46, 98 >>, << 45, 97, 46, 98 >> },
        dp \in { "", "ircd.db" },
        ls \in { << >>, << ":6667" >> },
        lim \in { 0, 1 } \X { 1, 2 } \X { 0, 1 } \X { 0, 1 },
        kl \in KickLens,
        fp \in FlatPasswords,
        np \in NestedPasswords }

\* documents that pass the checks and vary the two mappings
MapConfigs ==
    { [BaseConfig EXCEPT !.Operator = o, !.Server.TLSListeners = t,
                         !.Server.Password = fp, !.Server.PassConfig.Password = "eQ=="] :
        o \in MapsTo(OpConfs),
        t \in { t \in MapsTo(TLSConfs) : Cardinality(t) <= MaxEntries },
        fp \in FlatPasswords }

Docs ==
    { [kind |-> k, cfg |-> ZeroConfig] : k \in { "unreadable", "malformed", "empty" } }
    \cup { [kind |-> "parsed", cfg |-> c] : c \in ScalarConfigs }
    \cup { [kind |-> "parsed", cfg |-> c] :
             c \in { m \in MapConfigs :
                       Cardinality(m.Operator) + Cardinality(m.Server.TLSListeners) <= MaxEntries } }

NoCall == [outcome |-> "none", map |-> {}]

CallLoadConfig ==
    /\ loadPc = "start"
    /\ LET r == LoadConfig(doc)
       IN  /\ loadPc' = IF r.outcome = "panicked" THEN "panicked"
                        ELSE IF r.nil THEN "failed" ELSE "loaded"
           /\ config' = [nil |-> r.nil, val |-> r.config]
           /\ loadErr' = r.err
    /\ UNCHANGED <<doc, opsCalls, opsResult, opsPrev, tlsCalls, tlsResult, tlsPrev>>

\* a call of config.Operators(); log.Fatal and a panic end the process
CallOperators ==
    /\ loadPc = "loaded"
    /\ opsCalls < MaxCalls
    /\ \E order \in Orders(config.val.Operator) :
        LET r == Operators(config.val, order)
        IN  /\ opsPrev' = opsResult
            /\ opsResult' = [outcome |-> r.outcome, map |-> r.map]
            /\ config' = [config EXCEPT !.val = r.conf]
            /\ loadPc' = IF r.outcome = "returned" THEN "loaded" ELSE r.outcome
    /\ opsCalls' = opsCalls + 1
    /\ UNCHANGED <<doc, loadErr, tlsCalls, tlsResult, tlsPrev>>

\* a call of config.TLSListeners()
CallTLSListeners ==
    /\ loadPc = "loaded"
    /\ tlsCalls < MaxCalls
    /\ \E order \in Orders(config.val.Server.TLSListeners) :
        LET r == TLSListeners(config.val, order)
        IN  /\ tlsPrev' = tlsResult
            /\ tlsResult' = [outcome |-> r.outcome, map |-> r.map]
            /\ config' = [config EXCEPT !.val = r.conf]
            /\ loadPc' = IF r.outcome = "returned" THEN "loaded" ELSE r.outcome
    /\ tlsCalls' = tlsCalls + 1
    /\ UNCHANGED <<doc, loadErr, opsCalls, opsResult, opsPrev>>

----------------------------------------------------------------------------
(* Specifications *)

\* IsHostname is about to be called on any of the names; nothing else runs
InitHostname ==
    /\ name \in Names /\ hostPc = "start" /\ hostResult = FALSE
    /\ addrStr = << >> /\ dnsErr = FALSE /\ dnsNames = << >>
    /\ lookupPc = "idle" /\ lookupOp = "none" /\ lookupArg = << >> /\ lookupResult = << >>
    /\ doc = [kind |-> "unreadable", cfg |-> ZeroConfig]
    /\ config = [nil |-> TRUE, val |-> ZeroConfig]
    /\ loadPc = "idle" /\ loadErr = ""
    /\ opsCalls = 0 /\ opsResult = NoCall /\ opsPrev = NoCall
    /\ tlsCalls = 0 /\ tlsResult = NoCall /\ tlsPrev = NoCall

HostNext == CallIsHostname /\ UNCHANGED <<lookupVars, configVars>>

SpecHostname == InitHostname /\ [][HostNext]_vars

\* a lookup is about to be made for any of the addresses; nothing else runs
InitLookup ==
    /\ name = << >> /\ hostPc = "idle" /\ hostResult = FALSE
    /\ addrStr \in Addrs /\ dnsErr = FALSE /\ dnsNames = << >>
    /\ lookupPc = "start" /\ lookupOp = "none" /\ lookupArg = << >> /\ lookupResult = << >>
    /\ doc = [kind |-> "unreadable", cfg |-> ZeroConfig]
    /\ config = [nil |-> TRUE, val |-> ZeroConfig]
    /\ loadPc = "idle" /\ loadErr = ""
    /\ opsCalls = 0 /\ opsResult = NoCall /\ opsPrev = NoCall
    /\ tlsCalls = 0 /\ tlsResult = NoCall /\ tlsPrev = NoCall

LookupNext ==
    \/ CallLookupHostname /\ UNCHANGED <<hostVars, configVars>>
    \/ CallAddrLookupHostname /\ UNCHANGED <<hostVars, configVars>>

SpecLookup == InitLookup /\ [][LookupNext]_vars

\* LoadConfig is about to be called on any of the documents; nothing else runs
InitConfig ==
    /\ name = << >> /\ hostPc = "idle" /\ hostResult = FALSE
    /\ addrStr = << >> /\ dnsErr = FALSE /\ dnsNames = << >>
    /\ lookupPc = "idle" /\ lookupOp = "none" /\ lookupArg = << >> /\ lookupResult = << >>
    /\ doc \in Docs
    /\ config = [nil |-> TRUE, val |-> ZeroConfig]
    /\ loadPc = "start" /\ loadErr = ""
    /\ opsCalls = 0 /\ opsResult = NoCall /\ opsPrev = NoCall
    /\ tlsCalls = 0 /\ tlsResult = NoCall /\ tlsPrev = NoCall

ConfigNext ==
    \/ CallLoadConfig /\ UNCHANGED <<hostVars, lookupVars>>
    \/ CallOperators /\ UNCHANGED <<hostVars, lookupVars>>
    \/ CallTLSListeners /\ UNCHANGED <<hostVars, lookupVars>>

SpecConfig == InitConfig /\ [][ConfigNext]_vars

----------------------------------------------------------------------------
(* Properties of IsHostname *)

\* the characters [a-z0-9.-] compared case-insensitively: ASCII letters,
\* digits, "." and "-"
HostnameAlphabet == (97..122) \cup (65..90) \cup (48..57) \cup { 45, 46 }

\* the positions that delimit labels: before the first character, every ".",
\* and after the last character
Boundaries(n) == { 0, Len(n) + 1 } \cup { i \in 1..Len(n) : n[i] = 46 }

\* the pairs <<b, e>> of adjacent boundaries; the label between them is
\* n[b+1 .. e-1]
LabelSpans(n) ==
    { sp \in Boundaries(n) \X Boundaries(n) :
        sp[1] < sp[2] /\ \A k \in Boundaries(n) : ~(sp[1] < k /\ k < sp[2]) }

LabelLen(sp) == sp[2] - sp[1] - 1

LabelHasDashEdge(n, sp) ==
    LabelLen(sp) >= 1 /\ (n[sp[1] + 1] = 45 \/ n[sp[2] - 1] = 45)

HasDot(n) == \E i \in 1..Len(n) : n[i] = 46

\* the four rules of the hostname grammar
HostnameRules(n) ==
    /\ Len(n) >= 1 /\ Len(n) <= MaxHostnameLen
    /\ HasDot(n)
    /\ \A sp \in LabelSpans(n) :
         LabelLen(sp) >= 1 /\ LabelLen(sp) <= MaxLabelLen /\ ~LabelHasDashEdge(n, sp)
    /\ \A i \in 1..Len(n) : n[i] \in HostnameAlphabet

\* C3: IsHostname(name) is true if and only if the four rules hold for name
\* (length in [1,253], a ".", every label of length in [1,63] with no "-" at
\* either end, every character in [a-z0-9.-] up to ASCII case); no character
\* outside ASCII letters, digits, "." and "-" is accepted.
C3_IsHostnameIffRules ==
    hostPc = "done" => (hostResult <=> HostnameRules(name))

\* C4: IsHostname is false for every string without ".", for every string
\* longer than 253 (in characters or in bytes), for every string with a label
\* longer than 63, and for every string with a label that starts or ends
\* with "-".
C4_RejectsBadShape ==
    ( /\ hostPc = "done"
      /\ \/ ~HasDot(name)
         \/ Len(name) > MaxHostnameLen
         \/ GoLen(name) > MaxHostnameLen
         \/ \E sp \in LabelSpans(name) : LabelLen(sp) > MaxLabelLen
         \/ \E sp \in LabelSpans(name) : LabelHasDashEdge(name, sp) )
    => hostResult = FALSE

\* IsHostname has answered for a dotted name of more than 253 characters whose
\* labels are all well formed
C4_Witness ==
    /\ hostPc = "done"
    /\ HasDot(name)
    /\ Len(name) > MaxHostnameLen
    /\ \A sp \in LabelSpans(name) :
         LabelLen(sp) >= 1 /\ LabelLen(sp) <= MaxLabelLen /\ ~LabelHasDashEdge(name, sp)
    /\ \A i \in 1..Len(name) : name[i] \in HostnameAlphabet
    /\ hostResult = FALSE

----------------------------------------------------------------------------
(* Properties of LookupHostname and AddrLookupHostname *)

\* the first candidate was found and is a hostname
FirstCandidateValid == ~dnsErr /\ dnsNames # << >> /\ IsHostname(dnsNames[1])

\* C5: LookupHostname returns the first candidate when the lookup succeeds
\* and that candidate passes IsHostname, and in every other case (an error,
\* no candidates with or without an error, an invalid first candidate) it
\* returns the address it was given; it never crashes.
C5_FirstCandidateOrFallback ==
    lookupOp = "LookupHostname" =>
        /\ lookupPc = "returned"
        /\ lookupResult = IF FirstCandidateValid THEN dnsNames[1] ELSE lookupArg

\* C9 as claimed: when the host:port split fails, what AddrLookupHostname
\* returns is the original address string, whatever the resolver answered.
C9_SplitFailureSkipsLookup ==
    ( /\ lookupOp = "AddrLookupHostname"
      /\ SplitHostPort(addrStr).err
      /\ lookupPc = "returned" )
    => lookupResult = addrStr

\* C9 as amended: when the host:port split fails, the original address string
\* is what is handed to the reverse lookup, and what AddrLookupHostname
\* returns is the first candidate when the lookup succeeded and that candidate
\* passes IsHostname, and the original address string otherwise.
C9_SplitFailureLooksUpOriginal ==
    ( /\ lookupOp = "AddrLookupHostname"
      /\ SplitHostPort(addrStr).err
      /\ lookupPc = "returned" )
    => /\ lookupArg = addrStr
       /\ lookupResult = IF FirstCandidateValid THEN dnsNames[1] ELSE addrStr

\* AddrLookupHostname has returned a resolved name for a non-empty address
\* whose split failed
C9_Witness ==
    /\ lookupOp = "AddrLookupHostname"
    /\ addrStr # << >>
    /\ SplitHostPort(addrStr).err
    /\ lookupPc = "returned"
    /\ FirstCandidateValid
    /\ lookupResult = dnsNames[1]
    /\ lookupResult # addrStr

----------------------------------------------------------------------------
(* Properties of LoadConfig *)

\* the six load-time invariants, in the fixed order, as violations
Violations(c) ==
    << c.Network.Name = "",
       c.Server.Name = << >>,
       ~IsHostname(c.Server.Name),
       c.Datastore.Path = "",
       c.Server.Listen = << >>,
       ~(c.Limits.NickLen >= 1 /\ c.Limits.ChannelLen >= 2 /\ c.Limits.AwayLen >= 1
           /\ c.Limits.TopicLen >= 1) >>

Messages ==
    << "Network name missing",
       "Server name missing",
       "Server name must match the format of a hostname",
       "Datastore path missing",
       "Server listening addresses missing",
       "Limits aren't setup properly, check them and make them sane" >>

\* C1: for a document that was read and parsed into a config, the error
\* LoadConfig returns is the one of the earliest violated check of the fixed
\* order, and it returns a config with a nil error only when none of the six
\* is violated.
C1_EarliestViolationReported ==
    (doc.kind = "parsed" /\ loadPc # "start") =>
        LET v == Violations(doc.cfg)
        IN  /\ \A i \in 1..6 :
                 (loadErr = Messages[i]) <=> (v[i] /\ \A j \in 1..(i - 1) : ~v[j])
            /\ (~config.nil /\ loadErr = "") <=> (\A i \in 1..6 : ~v[i])
            /\ config.nil <=> loadErr # ""

\* LoadConfig has failed on a document that violates the hostname format, the
\* datastore path and the limits at once
C1_Witness ==
    /\ doc.kind = "parsed"
    /\ loadPc = "failed"
    /\ Violations(doc.cfg)[3] /\ Violations(doc.cfg)[4] /\ Violations(doc.cfg)[6]
    /\ ~Violations(doc.cfg)[1] /\ ~Violations(doc.cfg)[2]
    /\ loadErr = Messages[3]

\* C2: loading a document without Network.Name, an empty document included,
\* returns a non-nil error and a nil config, and never ends abnormally.
C2_MissingNetworkNameIsAnError ==
    ( /\ loadPc # "start"
      /\ doc.kind \in { "empty", "parsed" }
      /\ doc.cfg.Network.Name = "" )
    => (loadPc = "failed" /\ config.nil /\ loadErr # "")

\* C7: two documents that differ only in Limits.KickLen get the same outcome
\* from LoadConfig: both succeed, or both fail with the same error.
C7_KickLenIgnored ==
    (doc.kind = "parsed" /\ loadPc # "start") =>
        \A k \in KickLens :
            LET r == LoadConfig([doc EXCEPT !.cfg.Limits.KickLen = k])
            IN  /\ r.outcome = "returned"
                /\ r.err = loadErr
                /\ r.nil = (loadErr # "")

\* LoadConfig has succeeded on a document whose KickLen is below 1
C7_Witness ==
    /\ doc.kind = "parsed"
    /\ loadPc = "loaded"
    /\ doc.cfg.Limits.KickLen < 1

\* C8: the Config LoadConfig returns is the parsed document with the flat
\* Server.Password copied into Server.PassConfig.Password when it is non-empty
\* and the nested value left as parsed when it is empty, and it stays that
\* after any number of calls of Operators() and TLSListeners() in any order.
C8_OnlyNormalizationMutates ==
    ~config.nil =>
        config.val =
            [doc.cfg EXCEPT !.Server.PassConfig.Password =
                IF doc.cfg.Server.Password # ""
                THEN doc.cfg.Server.Password
                ELSE doc.cfg.Server.PassConfig.Password]

\* both resolvers have been called on a loaded config that has an operator
\* and whose flat password replaced a different nested one
C8_Witness ==
    /\ loadPc = "loaded"
    /\ opsCalls >= 1 /\ tlsCalls >= 1
    /\ doc.cfg.Operator # {}
    /\ doc.cfg.Server.Password # ""
    /\ doc.cfg.Server.PassConfig.Password # ""
    /\ doc.cfg.Server.PassConfig.Password # doc.cfg.Server.Password

----------------------------------------------------------------------------
(* Properties of Operators and TLSListeners *)

NameFolds(e) == ~CasefoldName(e.key).err

FoldedNames(m) == { CasefoldName(e.key).name : e \in { x \in m : NameFolds(x) } }

OperatorMaterialOk(e) == ~e.val.nil /\ ~DecodePassword(e.val.Password).err

ListenerMaterialOk(e) == ~e.val.nil /\ ~LoadX509KeyPair(e.val.Cert, e.val.Key).err

\* C6 for Operators(): the map holds exactly the names that fold, and the
\* call returns whenever every entry whose name folds has sound material
C6_OperatorsPart ==
    opsCalls >= 1 =>
        /\ opsResult.outcome = "returned" =>
             MapKeys(opsResult.map) = FoldedNames(config.val.Operator)
        /\ (\A e \in config.val.Operator : NameFolds(e) => OperatorMaterialOk(e))
             => opsResult.outcome = "returned"

\* C6 for TLSListeners()
C6_ListenersPart ==
    tlsCalls >= 1 =>
        /\ tlsResult.outcome = "returned" =>
             MapKeys(tlsResult.map) = FoldedNames(config.val.Server.TLSListeners)
        /\ (\A e \in config.val.Server.TLSListeners : NameFolds(e) => ListenerMaterialOk(e))
             => tlsResult.outcome = "returned"

\* C6: for Operators() and TLSListeners() alike, the returned map never holds
\* an entry whose name failed canonicalization, and such a failure is soft
\* whatever the skipped entry's own material is: the call is not aborted and
\* every entry whose name canonicalizes is present in the result.
C6_CanonicalizationFailureIsSoft == C6_OperatorsPart /\ C6_ListenersPart

\* C10: two calls of Operators() on the same Config return equal maps, and so
\* do two calls of TLSListeners(), whatever the order in which the source
\* mapping is iterated, also when two raw names share a canonical name.
C10_ResolversDeterministic ==
    /\ (opsResult.outcome = "returned" /\ opsPrev.outcome = "returned")
         => opsResult.map = opsPrev.map
    /\ (tlsResult.outcome = "returned" /\ tlsPrev.outcome = "returned")
         => tlsResult.map = tlsPrev.map

====
